---------------------------- MODULE Spec2Model ----------------------------
(***************************************************************************)
(* SCI-90 questionnaire: the scoring and risk-classification engine        *)
(* (calculateResult, determineRiskLevel, getFactorInterpretation) over the *)
(* 90-item question table served by the worker.                            *)
(*                                                                         *)
(* JavaScript values are modelled as tagged records so that undefined,     *)
(* null, numbers and strings can be told apart and compared:               *)
(*   Num(n), Str(s), Undefined, Null.                                      *)
(* The source's Chinese string literals are written in ASCII:              *)
(*   factor names  : Somatization (躯体化), ObsessiveCompulsive (强迫症状),    *)
(*                   InterpersonalSensitivity (人际关系敏感),                  *)
(*                   Depression (抑郁), Anxiety (焦虑), Hostility (敌对),      *)
(*                   Phobia (恐怖), Paranoia (偏执), Psychoticism (精神病性)   *)
(*   risk levels   : Severe (重度), Moderate (中度), Mild (轻度),             *)
(*                   None (无明显)                                          *)
(*   factor levels : Elevated (偏高), Medium (中等), Normal (正常)            *)
(* Averages are JavaScript doubles obtained by one division of two small   *)
(* integers; they are kept as fractions [num, den] and compared by cross   *)
(* multiplication.  A correctly rounded quotient is monotone in the exact  *)
(* quotient and two quotients with denominators <= 90 that differ do so by *)
(* at least 1/8100, far more than a rounding error, so the comparison of   *)
(* the doubles and of the fractions agree.                                 *)
(***************************************************************************)
EXTENDS Integers, Sequences, FiniteSets, TLC

VARIABLES
  answers,         \* the answer array handed to calculateResult
  result,          \* what calculateResult returned, Undefined before the call
  previous,        \* what the call before the last returned
  factorName,      \* the arguments handed to getFactorInterpretation
  averageScore,
  interpretation,  \* what getFactorInterpretation returned
  users,           \* the users table: token -> row, Null where there is none
  request,         \* the request the worker handled last
  response,        \* the response it gave
  clock,           \* CURRENT_TIMESTAMP; a tick per request
  inflight         \* the recordAccess calls running side by side, each with
                   \* its position, its body, the row it read and its answer

scoringVars ==
  <<answers, result, previous, factorName, averageScore, interpretation>>

workerVars == <<users, request, response, clock, inflight>>

vars == <<scoringVars, workerVars>>

(***************************************************************************)
(* JavaScript values                                                       *)
(***************************************************************************)
Num(n) == [kind |-> "number", value |-> n]

Str(s) == [kind |-> "string", value |-> s]

Undefined == [kind |-> "undefined"]

Null == [kind |-> "null"]

\* a quotient num / den of two integers, den > 0
Frac(n, d) == [num |-> n, den |-> d]

\* a >= b on quotients
FracGE(a, b) == a.num * b.den >= b.num * a.den

\* a > b on quotients
FracGT(a, b) == a.num * b.den > b.num * a.den

\* a = b as numbers
FracEQ(a, b) == a.num * b.den = b.num * a.den

(***************************************************************************)
(* Static tables                                                           *)
(***************************************************************************)
NumQuestions == 90

\* the dimension column of the question table, in the order of its entries
QuestionDimension ==
  << "Somatization", "ObsessiveCompulsive", "ObsessiveCompulsive", "Somatization",
     "InterpersonalSensitivity", "Hostility", "Paranoia", "Hostility",
     "ObsessiveCompulsive", "ObsessiveCompulsive",
     "Hostility", "Somatization", "Phobia", "Depression", "Depression",
     "Psychoticism", "Anxiety", "InterpersonalSensitivity", "Somatization",
     "Depression",
     "InterpersonalSensitivity", "Paranoia", "Phobia", "Hostility", "Phobia",
     "Depression", "Somatization", "ObsessiveCompulsive",
     "InterpersonalSensitivity", "Depression",
     "Anxiety", "Depression", "Phobia", "InterpersonalSensitivity",
     "Psychoticism", "InterpersonalSensitivity", "InterpersonalSensitivity",
     "ObsessiveCompulsive", "Anxiety", "Somatization",
     "InterpersonalSensitivity", "Somatization", "Paranoia", "Depression",
     "ObsessiveCompulsive", "ObsessiveCompulsive", "Phobia", "Anxiety",
     "Anxiety", "Phobia",
     "Psychoticism", "Somatization", "Somatization", "Depression",
     "ObsessiveCompulsive", "Somatization", "Anxiety", "Somatization",
     "Depression", "Somatization",
     "InterpersonalSensitivity", "Psychoticism", "Hostility", "Depression",
     "ObsessiveCompulsive", "Depression", "Hostility", "Psychoticism",
     "InterpersonalSensitivity", "Phobia",
     "Depression", "Phobia", "Phobia", "Hostility", "Anxiety", "Paranoia",
     "InterpersonalSensitivity", "Anxiety", "Depression", "Psychoticism",
     "Hostility", "Phobia", "Paranoia", "Psychoticism", "Psychoticism",
     "ObsessiveCompulsive", "Somatization", "InterpersonalSensitivity",
     "Depression", "Psychoticism" >>

\* a slip in the id column: the last entry repeats the id before it
QuestionIdRepeated(k) == IF k = NumQuestions THEN k - 1 ELSE k

\* the id column of the question table: the k-th entry has id k
QuestionId(k) == k

\* the question table (the text column is left out)
questions ==
  [k \in 1..Len(QuestionDimension) |->
     [id |-> QuestionId(k), dimension |-> QuestionDimension[k]]]

\* the nine factor names in their declared order; Object.entries iterates
\* string keys in insertion order
FactorOrder ==
  << "Somatization", "ObsessiveCompulsive", "InterpersonalSensitivity",
     "Depression", "Anxiety", "Hostility", "Phobia", "Paranoia",
     "Psychoticism" >>

FactorNames == { FactorOrder[k] : k \in 1..Len(FactorOrder) }

\* the ids of the questions that carry dimension f, in table order
IdsOf(f) ==
  LET entries == SelectSeq(questions, LAMBDA q : q.dimension = f)
  IN [k \in 1..Len(entries) |-> entries[k].id]

\* factor name -> the ordered ids of its questions
factorIndices == [f \in FactorNames |-> IdsOf(f)]

(***************************************************************************)
(* calculateResult                                                         *)
(***************************************************************************)
\* JavaScript truthiness: undefined, null, 0 and '' are falsy
Truthy(e) ==
  \/ e.kind = "number" /\ e.value # 0
  \/ e.kind = "string" /\ e.value # ""

\* a validating variant: an entry outside 0..4 is replaced by 0 as well
OrZeroValidated(e) ==
  IF Truthy(e) /\ e.value \in 0..4 THEN e.value ELSE 0

\* (answer || 0), an entry with the falsy ones replaced by 0
OrZero(e) == IF Truthy(e) THEN e.value ELSE 0

\* answers[index - 1]: undefined past the end of the array
At(a, index) == IF index \in 1..Len(a) THEN a[index] ELSE Undefined

\* a slip in the comparison: answer >= 1
GreaterOrEqualOne(e) == e.kind = "number" /\ e.value >= 1

\* answer > 1: undefined converts to NaN, null to 0
GreaterThanOne(e) == e.kind = "number" /\ e.value > 1

RECURSIVE ReduceSum(_, _, _)
\* answers.reduce((sum, answer) => sum + (answer || 0), 0) over the entries
\* lo..hi; the terms are numbers, so the fold from the left is the sum, and
\* the sum is taken by halves
ReduceSum(a, lo, hi) ==
  IF lo > hi THEN 0
  ELSE IF lo = hi THEN OrZero(a[lo])
  ELSE LET mid == (lo + hi) \div 2
       IN ReduceSum(a, lo, mid) + ReduceSum(a, mid + 1, hi)

\* answers.filter(answer => answer > 1).length
FilterCount(a) ==
  Cardinality({ i \in 1..Len(a) : GreaterThanOne(a[i]) })

\* a slip in the index shift: answers[index] for answers[index - 1]
FactorScoresOffByOne(a, indices) ==
  [k \in 1..Len(indices) |-> OrZero(At(a, indices[k] + 1))]

\* indices.map(index => answers[index - 1] || 0)
FactorScores(a, indices) ==
  [k \in 1..Len(indices) |-> OrZero(At(a, indices[k]))]

RECURSIVE SeqSum(_, _)
\* factorScores.reduce((sum, score) => sum + score, 0), from entry k on
SeqSum(s, k) == IF k > Len(s) THEN 0 ELSE s[k] + SeqSum(s, k + 1)

\* a slip: the mean over the entries supplied
TotalAverageOverLength(totalScore, a) == Frac(totalScore, Len(a))

\* a slip: the mean over the entries that hold a number
TotalAverageOverAnswered(totalScore, a) ==
  Frac(totalScore, Cardinality({ i \in 1..Len(a) : a[i].kind = "number" }))

\* totalScore / 90
TotalAverage(totalScore, a) == Frac(totalScore, 90)

\* the factors object built by the loop over Object.entries(factorIndices)
FactorsOf(a) ==
  [f \in FactorNames |->
     LET indices == factorIndices[f]
         factorSum == SeqSum(FactorScores(a, indices), 1)
     IN [score |-> factorSum,
         average |-> Frac(factorSum, Len(indices)),
         itemCount |-> Len(indices)]]

(***************************************************************************)
(* determineRiskLevel                                                      *)
(***************************************************************************)
\* a slip in the comparison: data.average > 3
IsHighFactorStrict(data) == FracGT(data.average, Frac(3, 1))

\* data.average >= 3
IsHighFactor(data) == FracGE(data.average, Frac(3, 1))

\* a slip in the comparison: data.average >= maxFactorScore
ExceedsMaxOrEqual(data, maxFactorScore) == FracGE(data.average, maxFactorScore)

\* data.average > maxFactorScore
ExceedsMax(data, maxFactorScore) == FracGT(data.average, maxFactorScore)

RECURSIVE ScanFactors(_, _, _)
\* the loop over Object.entries(factors) from the k-th factor on; st holds
\* maxFactorScore, maxFactorName and highFactorCount
ScanFactors(factors, k, st) ==
  IF k > Len(FactorOrder) THEN st
  ELSE LET name == FactorOrder[k]
           data == factors[name]
       IN IF IsHighFactor(data)
          THEN ScanFactors(factors, k + 1,
                 [highFactorCount |-> st.highFactorCount + 1,
                  maxFactorScore |->
                    IF ExceedsMax(data, st.maxFactorScore)
                    THEN data.average ELSE st.maxFactorScore,
                  maxFactorName |->
                    IF ExceedsMax(data, st.maxFactorScore)
                    THEN name ELSE st.maxFactorName])
          ELSE ScanFactors(factors, k + 1, st)

\* let maxFactorScore = 0; let maxFactorName = ''; let highFactorCount = 0
ScanInit ==
  [maxFactorScore |-> Frac(0, 1), maxFactorName |-> "", highFactorCount |-> 0]

\* the record returned by the first branch
SevereLevel(maxFactorName) ==
  [level |-> "Severe", color |-> "#e74c3c",
   description |-> "your psychological distress is rather severe",
   advice |-> "seek a professional psychologist as soon as possible",
   mainIssue |-> Str(maxFactorName),
   recommendProfessional |-> TRUE]

\* the record returned by the second branch
ModerateLevel(maxFactorName) ==
  [level |-> "Moderate", color |-> "#e67e22",
   description |-> "you have some psychological distress",
   advice |-> "seek the help of a professional counsellor",
   mainIssue |-> Str(maxFactorName),
   recommendProfessional |-> TRUE]

\* a slip: the third branch recommending professional help too
MildLevelRecommending(maxFactorName) ==
  [level |-> "Mild", color |-> "#f39c12",
   description |-> "you have slight psychological distress",
   advice |-> "self-regulate; consider professional help if it lasts",
   mainIssue |-> Str(maxFactorName),
   recommendProfessional |-> TRUE]

\* the record returned by the third branch
MildLevel(maxFactorName) ==
  [level |-> "Mild", color |-> "#f39c12",
   description |-> "you have slight psychological distress",
   advice |-> "self-regulate; consider professional help if it lasts",
   mainIssue |-> Str(maxFactorName),
   recommendProfessional |-> FALSE]

\* a slip: the last branch returning maxFactorName as the others do
NormalLevelWithName ==
  [level |-> "None", color |-> "#27ae60",
   description |-> "your psychological state is good",
   advice |-> "keep a healthy way of life",
   mainIssue |-> Str(""),
   recommendProfessional |-> FALSE]

\* the record returned by the last branch
NormalLevel ==
  [level |-> "None", color |-> "#27ae60",
   description |-> "your psychological state is good",
   advice |-> "keep a healthy way of life",
   mainIssue |-> Null,
   recommendProfessional |-> FALSE]

determineRiskLevel(totalScore, factors) ==
  LET st == ScanFactors(factors, 1, ScanInit)
      highFactorCount == st.highFactorCount
      maxFactorName == st.maxFactorName
  IN IF totalScore >= 250 \/ highFactorCount >= 3
     THEN SevereLevel(maxFactorName)
     ELSE IF totalScore >= 200 \/ highFactorCount >= 2
     THEN ModerateLevel(maxFactorName)
     ELSE IF totalScore >= 160 \/ highFactorCount >= 1
     THEN MildLevel(maxFactorName)
     ELSE NormalLevel

\* a slip: the absent entries are replaced in the array itself
AnswersAfterCallFilled(a) == [i \in 1..Len(a) |-> Num(OrZero(a[i]))]

\* the array after the call: reduce, filter and map leave it as it was
AnswersAfterCall(a) == a

\* calculateResult(answers), called when the clock reads now
calculateResult(a, now) ==
  LET totalScore == ReduceSum(a, 1, Len(a))
      totalAverage == TotalAverage(totalScore, a)
      positiveItems == FilterCount(a)
      factors == FactorsOf(a)
      riskLevel == determineRiskLevel(totalScore, factors)
  IN [totalScore |-> totalScore,
      totalAverage |-> totalAverage,
      positiveItems |-> positiveItems,
      factors |-> factors,
      riskLevel |-> riskLevel,
      timestamp |-> now]

(***************************************************************************)
(* getFactorInterpretation                                                 *)
(***************************************************************************)
\* the interpretations object literal: one entry per factor name
interpretations ==
  [f \in FactorNames |->
     CASE f = "Somatization" ->
            [description |-> "subjective bodily discomfort",
             highScore |-> "many bodily complaints, possibly stress related",
             suggestions |-> << "relaxation training", "regular exercise",
                                "a physical examination if it lasts" >>]
       [] f = "ObsessiveCompulsive" ->
            [description |-> "thoughts and acts known to be needless",
             highScore |-> "obsessive thinking or behaviour",
             suggestions |-> << "accept the tendency", "delay the act",
                                "shift attention", "cognitive therapy" >>]
       [] f = "InterpersonalSensitivity" ->
            [description |-> "unease and inferiority among people",
             highScore |-> "unsure among people, minding their judgement",
             suggestions |-> << "self-acceptance", "communication skills",
                                "practise in small circles",
                                "others are nervous too" >>]
       [] f = "Depression" ->
            [description |-> "low mood, pessimism, loss of interest",
             highScore |-> "depressive symptoms needing attention",
             suggestions |-> << "regular rest and exercise",
                                "do things once liked", "talk to someone",
                                "professional help after two weeks" >>]
       [] f = "Anxiety" ->
            [description |-> "restlessness and nervousness",
             highScore |-> "marked anxiety symptoms",
             suggestions |-> << "muscle relaxation", "mindfulness",
                                "challenge anxious thoughts",
                                "less caffeine" >>]
       [] f = "Hostility" ->
            [description |-> "hostile thought, feeling and behaviour",
             highScore |-> "prone to anger and temper",
             suggestions |-> << "spot early anger", "healthy expression",
                                "exercise", "deep breathing" >>]
       [] f = "Phobia" ->
            [description |-> "fear and avoidance of places and things",
             highScore |-> "marked fear and avoidance",
             suggestions |-> << "gradual exposure", "relaxation",
                                "record fearful thoughts",
                                "professional treatment" >>]
       [] f = "Paranoia" ->
            [description |-> "projection, suspicion, delusion",
             highScore |-> "distrustful, feeling targeted",
             suggestions |-> << "test the suspicion", "change perspective",
                                "basic trust", "discuss with friends" >>]
       [] f = "Psychoticism" ->
            [description |-> "acute symptoms of a psychotic process",
             highScore |-> "unusual thought or perception",
             suggestions |-> << "regular rest", "no psychoactive substances",
                                "less stress", "see a psychiatrist" >>]]

\* the literal after ||: the generic interpretation
GenericInterpretation ==
  [description |-> "one of the dimensions of the assessment",
   highScore |-> "this dimension is elevated",
   suggestions |-> << "good habits", "self-regulation",
                      "professional help when needed" >>]

\* names every object inherits from Object.prototype; interpretations[name]
\* is then a truthy inherited value without own enumerable properties
ObjectPrototypeKeys ==
  { "constructor", "toString", "toLocaleString", "valueOf", "hasOwnProperty",
    "isPrototypeOf", "propertyIsEnumerable", "__proto__" }

\* a slip in the comparisons: averageScore > 3, averageScore > 2
StatusOfStrict(average) ==
  IF FracGT(average, Frac(3, 1)) THEN "warning"
  ELSE IF FracGT(average, Frac(2, 1)) THEN "attention" ELSE "normal"

\* averageScore >= 3 ? 'warning' : averageScore >= 2 ? 'attention' : 'normal'
StatusOf(average) ==
  IF FracGE(average, Frac(3, 1)) THEN "warning"
  ELSE IF FracGE(average, Frac(2, 1)) THEN "attention" ELSE "normal"

\* averageScore >= 3 ? Elevated : averageScore >= 2 ? Medium : Normal
LevelOf(average) ==
  IF FracGE(average, Frac(3, 1)) THEN "Elevated"
  ELSE IF FracGE(average, Frac(2, 1)) THEN "Medium" ELSE "Normal"

getFactorInterpretation(name, average) ==
  IF name \in FactorNames
  THEN [description |-> interpretations[name].description,
        highScore |-> interpretations[name].highScore,
        suggestions |-> interpretations[name].suggestions,
        level |-> LevelOf(average), status |-> StatusOf(average)]
  ELSE IF name \in ObjectPrototypeKeys
  THEN \* the spread of an inherited function or object copies nothing
       [level |-> LevelOf(average), status |-> StatusOf(average)]
  ELSE [description |-> GenericInterpretation.description,
        highScore |-> GenericInterpretation.highScore,
        suggestions |-> GenericInterpretation.suggestions,
        level |-> LevelOf(average), status |-> StatusOf(average)]

(***************************************************************************)
(* Inputs                                                                  *)
(***************************************************************************)
\* the answers of the scale
ValidAnswers == 0..4

\* how many values below 0 and above 4 an invalid entry is drawn from
InvalidBelow == 1

InvalidAbove == 1

InvalidAnswers == ((0 - InvalidBelow)..(0 - 1)) \cup (5..(4 + InvalidAbove))

\* at most this many factors are raised together in a factor vector
MaxRaised == 3

\* the clock readings a call can see
MaxTime == 1

\* the first n answers are a, the others b
Step(n, a, b) == [i \in 1..NumQuestions |-> Num(IF i <= n THEN a ELSE b)]

\* the ids of the questions carrying dimension f
ItemsOf(f) ==
  { questions[k].id : k \in { j \in 1..Len(questions) : questions[j].dimension = f } }

\* the items of the factors in H are answered hv, the others bv
FactorVector(H, hv, bv) ==
  LET raised == UNION { ItemsOf(f) : f \in H }
  IN [i \in 1..NumQuestions |-> Num(IF i \in raised THEN hv ELSE bv)]

StepVectors ==
  { Step(n, a, b) : n \in 0..NumQuestions, a \in ValidAnswers, b \in 2..3 }

FactorVectors ==
  { FactorVector(H, hv, bv) :
      H \in { S \in SUBSET FactorNames : Cardinality(S) <= MaxRaised },
      hv \in 3..4, bv \in 0..2 }

\* the vectors one entry of which is replaced, and which are cut short
SeedVectors == { Step(0, 0, 0), Step(0, 0, 3), Step(20, 2, 3) }

Entries ==
  { Num(v) : v \in ValidAnswers \cup InvalidAnswers } \cup { Undefined, Null }

ReplacedVectors ==
  { [v EXCEPT ![p] = e] : v \in SeedVectors, p \in 1..NumQuestions, e \in Entries }

ShortVectors ==
  { SubSeq(v, 1, n) : v \in SeedVectors, n \in 0..(NumQuestions - 1) }

InputVectors ==
  StepVectors \cup FactorVectors \cup ReplacedVectors \cup ShortVectors

\* the names and averages getFactorInterpretation is tried on
InterpretedNames == FactorNames \cup { "constructor", "toString", "unknown" }

ItemCounts == { Len(factorIndices[f]) : f \in FactorNames }

\* every average a factor of d items can have, and the whole numbers around
Averages ==
  UNION { { Frac(n, d) : n \in 0..(4 * d) } : d \in ItemCounts }
  \cup { Frac(n, 1) : n \in ValidAnswers \cup InvalidAnswers }

(***************************************************************************)
(* The worker and its users table                                          *)
(***************************************************************************)
\* the tokens generateToken is taken to draw
Tokens == { "tok1", "tok2" }

\* the state of the worker before any request
WorkerIdle ==
  /\ users = [t \in Tokens |-> Null]
  /\ request = Null
  /\ response = Null
  /\ clock = 0
  /\ inflight = << >>

(***************************************************************************)
(* The scoring of one answer array                                         *)
(***************************************************************************)
Init ==
  /\ answers \in InputVectors
  /\ result = Undefined
  /\ previous = Undefined
  /\ factorName = ""
  /\ averageScore = Frac(0, 1)
  /\ interpretation = Undefined
  /\ WorkerIdle

\* result = calculateResult(answers)
Calculate ==
  /\ \E now \in 0..MaxTime : result' = calculateResult(answers, now)
  /\ answers' = AnswersAfterCall(answers)
  /\ UNCHANGED <<previous, factorName, averageScore, interpretation>>
  /\ UNCHANGED workerVars

Next == Calculate

Spec == Init /\ [][Next]_vars

(***************************************************************************)
(* The scoring of one answer array, call after call                        *)
(***************************************************************************)
\* result = calculateResult(answers), the result before it being kept
Recalculate ==
  /\ \E now \in 0..MaxTime : result' = calculateResult(answers, now)
  /\ answers' = AnswersAfterCall(answers)
  /\ previous' = result
  /\ UNCHANGED <<factorName, averageScore, interpretation>>
  /\ UNCHANGED workerVars

NextRepeat == Recalculate

SpecRepeat == Init /\ [][NextRepeat]_vars

(***************************************************************************)
(* The interpretation of one factor average                                *)
(***************************************************************************)
InitInterpretation ==
  /\ answers = << >>
  /\ result = Undefined
  /\ previous = Undefined
  /\ factorName \in InterpretedNames
  /\ averageScore \in Averages
  /\ interpretation = Undefined
  /\ WorkerIdle

\* interpretation = getFactorInterpretation(factorName, averageScore)
Interpret ==
  /\ interpretation' = getFactorInterpretation(factorName, averageScore)
  /\ UNCHANGED <<answers, result, previous, factorName, averageScore>>
  /\ UNCHANGED workerVars

NextInterpretation == Interpret

SpecInterpretation == InitInterpretation /\ [][NextInterpretation]_vars

(***************************************************************************)
(* The worker's handlers.  A handler is given the table, the token of the  *)
(* path, the parsed JSON body and the reading of the clock; it yields the  *)
(* table it leaves and the response.  An exception (D1 refuses to bind     *)
(* undefined, and an INSERT that breaks a constraint throws) is caught by  *)
(* fetch and answered 500.                                                 *)
(***************************************************************************)
Arr(s) == [kind |-> "array", value |-> s]

Obj(r) == [kind |-> "object", value |-> r]

\* JSON.stringify on the values the requests carry; undefined stays undefined
JSONStringify(v) ==
  CASE v = Undefined -> Undefined
    [] v = Null -> Str("null")
    [] v = Arr(<< >>) -> Str("[]")
    [] v = Arr(<<3, 4>>) -> Str("[3,4]")
    [] v = Obj([totalScore |-> 7]) -> Str("{\"totalScore\":7}")

\* new Response(JSON.stringify(body), { status })
Response(status, body) == [status |-> status, body |-> body]

NotFound == Response(404, [error |-> "Token not found"])

Success == Response(200, [success |-> TRUE])

\* the catch of fetch
ServerError == Response(500, [error |-> "exception"])

Outcome(db, resp) == [users |-> db, response |-> resp]

\* a body on which await request.json() or the destructuring of its value
\* throws: no JSON, or the JSON null
BadBody == [kind |-> "unparsed"]

\* const { ... } = await request.json() went through
Parsed(body) == body # BadBody

\* a slip: a SELECT without its WHERE, any row will do
SelectAnyUser(db, token) ==
  IF \A t \in Tokens : db[t] = Null THEN Null
  ELSE db[CHOOSE t \in Tokens :
            /\ db[t] # Null
            /\ (db[token] # Null => t = token)]

\* SELECT ... FROM users WHERE token = ?, then first(): the row or null
SelectUser(db, token) == db[token]

\* UPDATE users SET ... WHERE token = ?: no row, no change
Update(db, token, row) ==
  IF db[token] = Null THEN db ELSE [db EXCEPT ![token] = row]

\* the row INSERT INTO users (token, order_id, note, status) makes, the
\* other columns taking the defaults of the schema
NewUser(orderId, note, now) ==
  [order_id |-> orderId, note |-> note, status |-> "pending",
   created_at |-> Num(now), first_access_at |-> Null, completed_at |-> Null,
   device_id |-> Null, progress |-> Num(0), answers |-> Null, result |-> Null]

createToken(db, body, token, now) ==
  IF ~ Parsed(body) THEN Outcome(db, ServerError)
  ELSE IF body.adminPassword # Str("admin123")
  THEN Outcome(db, Response(401, [error |-> "Unauthorized"]))
  ELSE LET note == IF Truthy(body.note) THEN body.note ELSE Str("")
       IN IF \/ body.orderId = Undefined     \* bind refuses undefined
             \/ body.orderId = Null          \* order_id TEXT NOT NULL
             \/ db[token] # Null             \* token TEXT PRIMARY KEY
          THEN Outcome(db, ServerError)
          ELSE Outcome([db EXCEPT ![token] = NewUser(body.orderId, note, now)],
                       Response(200, [success |-> TRUE, token |-> token]))

getUserInfo(db, token) ==
  LET row == SelectUser(db, token)
  IN IF row = Null THEN Outcome(db, NotFound)
     ELSE Outcome(db, Response(200, [success |-> TRUE, data |-> row]))

\* user.device_id && user.device_id !== deviceId
DeviceMismatch(user, deviceId) ==
  Truthy(user.device_id) /\ user.device_id # deviceId

\* the row after UPDATE users SET device_id = ?, first_access_at =
\* CURRENT_TIMESTAMP, status = ?
AccessedRow(user, deviceId, now) ==
  [user EXCEPT !.device_id = deviceId, !.first_access_at = Num(now),
               !.status = "testing"]

recordAccess(db, token, body, now) ==
  LET deviceId == body.deviceId
      user == SelectUser(db, token)
  IN IF ~ Parsed(body) THEN Outcome(db, ServerError)
     ELSE IF user = Null THEN Outcome(db, NotFound)
     ELSE IF DeviceMismatch(user, deviceId)
     THEN Outcome(db, Response(403, [error |-> "link already used on another device",
                                     code |-> "DEVICE_MISMATCH"]))
     ELSE IF ~ Truthy(user.device_id)
     THEN IF deviceId = Undefined
          THEN Outcome(db, ServerError)
          ELSE Outcome(Update(db, token, AccessedRow(user, deviceId, now)),
                       Success)
     ELSE Outcome(db, Success)

\* a slip: the check of recordAccess, which lets an unbound token through
UnauthorizedDeviceWhenBound(user, deviceId) ==
  Truthy(user.device_id) /\ user.device_id # deviceId

\* user.device_id !== deviceId
UnauthorizedDevice(user, deviceId) == user.device_id # deviceId

Unauthorized == Response(403, [error |-> "Unauthorized device"])

\* a slip: the status is written as well
SavedRowTesting(user, progress, answersText) ==
  [user EXCEPT !.progress = progress, !.answers = answersText,
               !.status = "testing"]

\* the row after UPDATE users SET progress = ?, answers = ?
SavedRow(user, progress, answersText) ==
  [user EXCEPT !.progress = progress, !.answers = answersText]

saveProgress(db, token, body) ==
  LET user == SelectUser(db, token)
      answersText == JSONStringify(body.answers)
  IN IF ~ Parsed(body) THEN Outcome(db, ServerError)
     ELSE IF user = Null THEN Outcome(db, NotFound)
     ELSE IF UnauthorizedDevice(user, body.deviceId)
     THEN Outcome(db, Unauthorized)
     ELSE IF body.progress = Undefined \/ answersText = Undefined
     THEN Outcome(db, ServerError)
     ELSE Outcome(Update(db, token, SavedRow(user, body.progress, answersText)),
                  Success)

\* the progress completeTest writes
CompletedProgress == 90

\* the row after UPDATE users SET status = ?, progress = 90, result = ?,
\* completed_at = CURRENT_TIMESTAMP
CompletedRow(user, resultText, now) ==
  [user EXCEPT !.status = "completed", !.progress = Num(CompletedProgress),
               !.result = resultText, !.completed_at = Num(now)]

completeTest(db, token, body, now) ==
  LET user == SelectUser(db, token)
      resultText == JSONStringify(body.result)
  IN IF ~ Parsed(body) THEN Outcome(db, ServerError)
     ELSE IF user = Null THEN Outcome(db, NotFound)
     ELSE IF UnauthorizedDevice(user, body.deviceId)
     THEN Outcome(db, Unauthorized)
     ELSE IF resultText = Undefined
     THEN Outcome(db, ServerError)
     ELSE Outcome(Update(db, token, CompletedRow(user, resultText, now)),
                  Success)

\* the columns the admin list selects, of every row
getAdminList(db, adminPassword) ==
  IF adminPassword # Str("admin123")
  THEN Outcome(db, Response(401, [error |-> "Unauthorized"]))
  ELSE Outcome(db, Response(200,
         [success |-> TRUE,
          data |-> { [token |-> t, order_id |-> db[t].order_id,
                      note |-> db[t].note, status |-> db[t].status,
                      created_at |-> db[t].created_at,
                      first_access_at |-> db[t].first_access_at,
                      completed_at |-> db[t].completed_at,
                      progress |-> db[t].progress] :
                     t \in { u \in Tokens : db[u] # Null } }]))

(***************************************************************************)
(* The requests, handled one at a time                                     *)
(***************************************************************************)
\* the worker is followed for this many requests
MaxRequests == 4

\* the deviceId of a body: a fingerprint, the empty string, null, or none
DeviceIds == { Str("devA"), Str("devB"), Str(""), Null, Undefined }

Progresses == { Num(2), Num(91), Undefined }

AnswerBodies == { Arr(<<3, 4>>), Undefined }

ResultBodies == { Obj([totalScore |-> 7]), Undefined }

CreateBodies ==
  [orderId : { Str("order1"), Null },
   note : { Str("gift"), Undefined },
   adminPassword : { Str("admin123"), Str("guess") }]
  \cup { BadBody }

AccessBodies == [deviceId : DeviceIds] \cup { BadBody }

SaveBodies ==
  [progress : Progresses, answers : AnswerBodies, deviceId : DeviceIds]
  \cup { BadBody }

CompleteBodies == [result : ResultBodies, deviceId : DeviceIds] \cup { BadBody }

InitWorker ==
  /\ answers = << >>
  /\ result = Undefined
  /\ previous = Undefined
  /\ factorName = ""
  /\ averageScore = Frac(0, 1)
  /\ interpretation = Undefined
  /\ WorkerIdle

\* the worker answers req with the outcome out
Handle(req, out) ==
  /\ clock < MaxRequests
  /\ clock' = clock + 1
  /\ request' = req
  /\ users' = out.users
  /\ response' = out.response
  /\ UNCHANGED inflight
  /\ UNCHANGED scoringVars

CreateToken ==
  \E body \in CreateBodies, token \in Tokens :
    Handle([op |-> "createToken", body |-> body],
           createToken(users, body, token, clock + 1))

GetUserInfo ==
  \E token \in Tokens :
    Handle([op |-> "getUserInfo", token |-> token],
           getUserInfo(users, token))

RecordAccess ==
  \E token \in Tokens, body \in AccessBodies :
    Handle([op |-> "recordAccess", token |-> token, body |-> body],
           recordAccess(users, token, body, clock + 1))

SaveProgress ==
  \E token \in Tokens, body \in SaveBodies :
    Handle([op |-> "saveProgress", token |-> token, body |-> body],
           saveProgress(users, token, body))

CompleteTest ==
  \E token \in Tokens, body \in CompleteBodies :
    Handle([op |-> "completeTest", token |-> token, body |-> body],
           completeTest(users, token, body, clock + 1))

GetAdminList ==
  \E adminPassword \in { Str("admin123"), Str("guess") } :
    Handle([op |-> "getAdminList", adminPassword |-> adminPassword],
           getAdminList(users, adminPassword))

NextWorker ==
  \/ CreateToken
  \/ GetUserInfo
  \/ RecordAccess
  \/ SaveProgress
  \/ CompleteTest
  \/ GetAdminList

SpecWorker == InitWorker /\ [][NextWorker]_vars

(***************************************************************************)
(* recordAccess calls for one unbound token, running side by side.  A call *)
(* gives way at each await: after request.json(), after the SELECT and     *)
(* after the UPDATE.  Each D1 statement is atomic; the SELECT and the      *)
(* UPDATE of one call are not one transaction.                             *)
(***************************************************************************)
\* the calls that run side by side
MaxConcurrent == 3

DeviceNames == <<"devA", "devB", "devC", "devD", "devE">>

\* every call comes from a device of its own
RaceDevice(r) == Str(DeviceNames[r])

RaceToken == "tok1"

\* recordAccess from the row it read on: user is what the SELECT returned,
\* db the table at the time of the UPDATE
recordAccessAfterSelect(db, token, body, user, now) ==
  LET deviceId == body.deviceId
  IN IF user = Null THEN Outcome(db, NotFound)
     ELSE IF DeviceMismatch(user, deviceId)
     THEN Outcome(db, Response(403, [error |-> "link already used on another device",
                                     code |-> "DEVICE_MISMATCH"]))
     ELSE IF ~ Truthy(user.device_id)
     THEN IF deviceId = Undefined
          THEN Outcome(db, ServerError)
          ELSE Outcome(Update(db, token,
                              AccessedRow(SelectUser(db, token), deviceId, now)),
                       Success)
     ELSE Outcome(db, Success)

\* the token was created and no device is bound; the calls have arrived
InitRace ==
  /\ answers = << >>
  /\ result = Undefined
  /\ previous = Undefined
  /\ factorName = ""
  /\ averageScore = Frac(0, 1)
  /\ interpretation = Undefined
  /\ users = [t \in Tokens |->
                IF t = RaceToken THEN NewUser(Str("order1"), Str(""), 1)
                ELSE Null]
  /\ request = Null
  /\ response = Null
  /\ clock = 1
  /\ inflight = [r \in 1..MaxConcurrent |->
                   [pc |-> "arrived", body |-> [deviceId |-> RaceDevice(r)],
                    user |-> Undefined, response |-> Null]]

\* const { deviceId } = await request.json()
ParseBody(r) ==
  /\ inflight[r].pc = "arrived"
  /\ inflight' =
       IF Parsed(inflight[r].body)
       THEN [inflight EXCEPT ![r].pc = "parsed"]
       ELSE [inflight EXCEPT ![r].pc = "done", ![r].response = ServerError]
  /\ UNCHANGED <<users, request, response, clock>>
  /\ UNCHANGED scoringVars

\* const user = await stmt.bind(token).first()
SelectDevice(r) ==
  /\ inflight[r].pc = "parsed"
  /\ inflight' = [inflight EXCEPT ![r].pc = "selected",
                                  ![r].user = SelectUser(users, RaceToken)]
  /\ UNCHANGED <<users, request, response, clock>>
  /\ UNCHANGED scoringVars

\* the checks on the row read, the UPDATE where it showed no device, and
\* the response
BindAndRespond(r) ==
  /\ inflight[r].pc = "selected"
  /\ LET out == recordAccessAfterSelect(users, RaceToken, inflight[r].body,
                                        inflight[r].user, clock + 1)
     IN /\ users' = out.users
        /\ clock' = IF out.users = users THEN clock ELSE clock + 1
        /\ inflight' = [inflight EXCEPT ![r].pc = "done",
                                        ![r].response = out.response]
  /\ UNCHANGED <<request, response>>
  /\ UNCHANGED scoringVars

NextRace ==
  \E r \in 1..MaxConcurrent :
    \/ ParseBody(r)
    \/ SelectDevice(r)
    \/ BindAndRespond(r)

SpecRace == InitRace /\ [][NextRace]_vars

(***************************************************************************)
(* Properties                                                              *)
(***************************************************************************)
RECURSIVE SumOver(_, _)
\* the sum of fn[x] for x in S
SumOver(fn, S) ==
  IF S = {} THEN 0
  ELSE LET x == CHOOSE y \in S : TRUE IN fn[x] + SumOver(fn, S \ {x})

Calculated == result # Undefined

\* 90 entries, each a number in 0..4
ValidVector(a) ==
  /\ Len(a) = NumQuestions
  /\ \A i \in 1..Len(a) : a[i].kind = "number" /\ a[i].value \in ValidAnswers

\* the number an entry stands for when absent entries count 0
ValueAt(a, i) ==
  IF i \in 1..Len(a) /\ a[i].kind = "number" THEN a[i].value ELSE 0

ValuesOf(a) == [i \in 1..NumQuestions |-> ValueAt(a, i)]

\* the number of factors whose average is at least 3
HighFactorCount(r) ==
  Cardinality({ f \in FactorNames :
                  r.factors[f].average.num >= 3 * r.factors[f].average.den })

\* C1: for a 90-length vector of answers in 0..4 the total score is the sum
\* of the nine factor scores, each factor score being the sum of the answers
\* to the questions that carry the factor's dimension
C1_TotalIsSumOfFactors ==
  (Calculated /\ ValidVector(answers)) =>
    /\ result.totalScore =
         SumOver([f \in FactorNames |-> result.factors[f].score], FactorNames)
    /\ \A f \in FactorNames :
         result.factors[f].score = SumOver(ValuesOf(answers), ItemsOf(f))

C1_Witness ==
  /\ Calculated /\ ValidVector(answers)
  /\ result.totalScore = 250
  /\ result.factors["Somatization"].score = 35
  /\ result.factors["Paranoia"].score = 14

\* the level the decision table gives, rows tried top to bottom
TableLevel(totalScore, highFactorCount) ==
  IF totalScore >= 250 \/ highFactorCount >= 3 THEN "Severe"
  ELSE IF totalScore >= 200 \/ highFactorCount >= 2 THEN "Moderate"
  ELSE IF totalScore >= 160 \/ highFactorCount >= 1 THEN "Mild"
  ELSE "None"

\* C2: the risk level is the first matching row of the decision table over
\* the total score and the number of factors averaging 3.0 or more
C2_DecisionTable ==
  Calculated =>
    result.riskLevel.level =
      TableLevel(result.totalScore, HighFactorCount(result))

\* one factor averages exactly 3.0, the total is far below 160: Mild
C2_Witness ==
  /\ Calculated
  /\ result.totalScore = 15
  /\ result.factors["Paranoia"].average = Frac(15, 5)
  /\ HighFactorCount(result) = 1
  /\ result.riskLevel.level = "Mild"

\* C3: with no factor averaging 3.0 or more the main issue is null, whatever
\* the level
C3_NoHighFactorNullIssue ==
  (Calculated /\ HighFactorCount(result) = 0) =>
    result.riskLevel.mainIssue = Null

\* the positions in FactorOrder of the factors of greatest average
MaxPositions(r) ==
  { k \in 1..Len(FactorOrder) :
      \A j \in 1..Len(FactorOrder) :
        FracGE(r.factors[FactorOrder[k]].average,
               r.factors[FactorOrder[j]].average) }

FirstMaxFactor(r) ==
  FactorOrder[CHOOSE k \in MaxPositions(r) : \A j \in MaxPositions(r) : k <= j]

\* C4: with a factor averaging 3.0 or more the main issue is the factor of
\* greatest average, the first in iteration order among those that tie
C4_MainIssueFirstMax ==
  (Calculated /\ HighFactorCount(result) >= 1) =>
    result.riskLevel.mainIssue = Str(FirstMaxFactor(result))

\* the all-four vector: every average 4.0, the first factor is the issue
C4_Witness ==
  /\ Calculated
  /\ result.totalScore = 360
  /\ \A f \in FactorNames : FracEQ(result.factors[f].average, Frac(4, 1))
  /\ result.riskLevel.mainIssue = Str(FactorOrder[1])

\* C5: professional help is recommended exactly for Severe and Moderate, that
\* is exactly when the total is 200 or more or two factors average 3.0 or more
C5_RecommendProfessional ==
  Calculated =>
    /\ result.riskLevel.recommendProfessional =
         (result.riskLevel.level \in {"Severe", "Moderate"})
    /\ result.riskLevel.recommendProfessional =
         (result.totalScore >= 200 \/ HighFactorCount(result) >= 2)

\* Mild on the total alone, one short of Moderate: not recommended
C5_Witness ==
  /\ Calculated
  /\ result.totalScore = 199
  /\ HighFactorCount(result) = 0
  /\ result.riskLevel.level = "Mild"
  /\ ~ result.riskLevel.recommendProfessional

\* some entry is undefined or null, or the array is shorter than 90
HasAbsent(a) ==
  \/ Len(a) < NumQuestions
  \/ \E i \in 1..Len(a) : a[i].kind \in {"undefined", "null"}

\* the array with every absent entry replaced by 0
ZeroFilled(a) == [i \in 1..NumQuestions |-> Num(ValueAt(a, i))]

\* C6: an array with absent entries is scored as the array with 0 in their
\* place: same total, average, positive items, factors and risk level
C6_AbsentAsZero ==
  (Calculated /\ HasAbsent(answers)) =>
    LET filled == calculateResult(ZeroFilled(answers), result.timestamp)
    IN /\ result.totalScore = filled.totalScore
       /\ result.totalAverage = filled.totalAverage
       /\ result.positiveItems = filled.positiveItems
       /\ result.factors = filled.factors
       /\ result.riskLevel = filled.riskLevel

\* twenty threes and nothing more were supplied
C6_Witness ==
  /\ Calculated
  /\ Len(answers) = 20
  /\ result.totalScore = 60
  /\ result.positiveItems = 20
  /\ result.totalAverage = Frac(60, 90)

\* some entry is a number outside 0..4
HasInvalid(a) ==
  \E i \in 1..Len(a) : a[i].kind = "number" /\ a[i].value \notin ValidAnswers

\* the number an entry stands for when absent and invalid entries count 0
ValidatedValueAt(a, i) ==
  IF ValueAt(a, i) \in ValidAnswers THEN ValueAt(a, i) ELSE 0

ValidatedValuesOf(a) == [i \in 1..NumQuestions |-> ValidatedValueAt(a, i)]

\* C7 as claimed: an entry outside 0..4 is scored as 0, in the total score
\* and in the score of its factor
C7_InvalidAsZero ==
  (Calculated /\ HasInvalid(answers)) =>
    /\ result.totalScore =
         SumOver(ValidatedValuesOf(answers), 1..NumQuestions)
    /\ \A f \in FactorNames :
         result.factors[f].score =
           SumOver(ValidatedValuesOf(answers), ItemsOf(f))

\* C7: an entry outside 0..4 is scored, without failure, as the number it
\* is: it adds its own value to the total score and to the score of its
\* factor
C7_InvalidAsItself ==
  (Calculated /\ HasInvalid(answers)) =>
    /\ result.totalScore = SumOver(ValuesOf(answers), 1..NumQuestions)
    /\ \A f \in FactorNames :
         result.factors[f].score = SumOver(ValuesOf(answers), ItemsOf(f))

\* the all-zero vector with a 5 as the answer to question 7 (Paranoia)
C7_Witness ==
  /\ Calculated
  /\ answers = [Step(0, 0, 0) EXCEPT ![7] = Num(5)]
  /\ result.totalScore = 5
  /\ result.factors["Paranoia"].score = 5

\* C8: the all-zero vector scores 0 with no positive item, every factor
\* average 0, level None, main issue null, no professional help recommended
C8_AllZero ==
  (Calculated /\ answers = Step(0, 0, 0)) =>
    /\ result.totalScore = 0
    /\ result.positiveItems = 0
    /\ \A f \in FactorNames : FracEQ(result.factors[f].average, Frac(0, 1))
    /\ result.riskLevel.level = "None"
    /\ result.riskLevel.mainIssue = Null
    /\ ~ result.riskLevel.recommendProfessional

C8_Witness ==
  /\ Calculated
  /\ answers = Step(0, 0, 0)
  /\ result.totalScore = 0
  /\ result.riskLevel.level = "None"

\* C9: the positive items are the entries whose value is strictly greater
\* than 1; entries 0 and 1 and absent entries do not count
C9_PositiveItems ==
  Calculated =>
    result.positiveItems =
      NumQuestions
        - Cardinality({ i \in 1..NumQuestions : ValueAt(answers, i) <= 1 })

\* twenty ones and seventy threes
C9_Witness ==
  /\ Calculated
  /\ answers = Step(20, 1, 3)
  /\ result.positiveItems = 70

\* C10: an average of 3 or more is a warning (Elevated), one of 2 or more
\* and below 3 an attention (Medium), one below 2 normal (Normal), whatever
\* the factor name
C10_InterpretationLevel ==
  (interpretation # Undefined) =>
    LET n == averageScore.num
        d == averageScore.den
    IN /\ (n >= 3 * d) =>
            interpretation.status = "warning" /\ interpretation.level = "Elevated"
       /\ (n >= 2 * d /\ n < 3 * d) =>
            interpretation.status = "attention" /\ interpretation.level = "Medium"
       /\ (n < 2 * d) =>
            interpretation.status = "normal" /\ interpretation.level = "Normal"

\* 39 over 13 items is exactly 3: a warning
C10_Witness ==
  /\ interpretation # Undefined
  /\ factorName = "Somatization"
  /\ averageScore = Frac(39, 13)
  /\ interpretation.status = "warning"

\* C11 as claimed: a name that is not a factor name gets the generic
\* description, high score text and suggestions, and the level of the average
C11_UnknownNameGeneric ==
  (interpretation # Undefined /\ factorName \notin FactorNames) =>
    interpretation =
      [description |-> GenericInterpretation.description,
       highScore |-> GenericInterpretation.highScore,
       suggestions |-> GenericInterpretation.suggestions,
       level |-> LevelOf(averageScore),
       status |-> StatusOf(averageScore)]

\* a result with the timestamp blanked
WithoutTimestamp(r) == [r EXCEPT !.timestamp = 0]

IdSet(f) == { factorIndices[f][k] : k \in 1..Len(factorIndices[f]) }

\* C13: the question table gives each id 1..90 once and each question one of
\* the nine dimension names; the nine id sets are non-empty, pairwise
\* disjoint and cover 1..90, so the item counts of a result add up to 90
C13_Partition ==
  /\ Len(questions) = NumQuestions
  /\ { questions[k].id : k \in 1..Len(questions) } = 1..NumQuestions
  /\ \A k \in 1..Len(questions) : questions[k].dimension \in FactorNames
  /\ Cardinality(FactorNames) = 9
  /\ \A f \in FactorNames :
       /\ IdSet(f) # {}
       /\ Cardinality(IdSet(f)) = Len(factorIndices[f])
  /\ \A f \in FactorNames : \A g \in FactorNames \ {f} :
       IdSet(f) \cap IdSet(g) = {}
  /\ UNION { IdSet(f) : f \in FactorNames } = 1..NumQuestions
  /\ Calculated =>
       /\ \A f \in FactorNames :
            result.factors[f].itemCount = Cardinality(IdSet(f))
       /\ SumOver([f \in FactorNames |-> result.factors[f].itemCount],
                  FactorNames) = NumQuestions

\* the all-four vector: every question counts in exactly one factor
C13_Witness ==
  /\ Calculated
  /\ answers = Step(0, 0, 4)
  /\ \A f \in FactorNames : result.factors[f].score = 4 * Cardinality(IdSet(f))
  /\ SumOver([f \in FactorNames |-> result.factors[f].itemCount], FactorNames)
       = NumQuestions

\* C14: the total average is the total score over 90, however many entries
\* were supplied
C14_TotalAverage ==
  Calculated =>
    /\ result.totalAverage.den # 0
    /\ result.totalAverage.num * NumQuestions
         = result.totalScore * result.totalAverage.den

\* forty-five threes and nothing more: 135 over 90
C14_Witness ==
  /\ Calculated
  /\ Len(answers) = 45
  /\ result.totalScore = 135
  /\ FracEQ(result.totalAverage, Frac(3, 2))

(***************************************************************************)
(* Properties of the worker.  In a step, request' is the request handled,  *)
(* users the table it found and users' the table it left.                  *)
(***************************************************************************)
\* the step handles a request of kind op for a token
Handles(op) == request'.op = op

\* the row of token t exists
HasRow(db, t) == db[t] # Null

\* C15 as claimed: once device_id is set, a recordAccess carrying another
\* deviceId is answered 403 DEVICE_MISMATCH and changes nothing
C15_MismatchRejected ==
  [][ LET t == request'.token
      IN (/\ Handles("recordAccess")
          /\ Parsed(request'.body)
          /\ HasRow(users, t)
          /\ users[t].device_id # Null
          /\ request'.body.deviceId # users[t].device_id)
         => /\ response'.status = 403
            /\ response'.body.code = "DEVICE_MISMATCH"
            /\ users' = users
    ]_vars

\* C16 as claimed: the first successful recordAccess binds the device and
\* sets the status to testing, a later one from the bound device succeeds
\* and leaves device_id, status and first_access_at alone, and a device_id
\* once set never changes
C16_BindingIsFinal ==
  [][ /\ (Handles("recordAccess") /\ Parsed(request'.body)) =>
           LET t == request'.token
               deviceId == request'.body.deviceId
           IN /\ (/\ HasRow(users, t)
                  /\ users[t].device_id = Null
                  /\ response'.status = 200)
                 => /\ users'[t].device_id = deviceId
                    /\ users'[t].status = "testing"
              /\ (/\ HasRow(users, t)
                  /\ users[t].device_id # Null
                  /\ users[t].device_id = deviceId)
                 => /\ response'.status = 200
                    /\ users'[t].device_id = users[t].device_id
                    /\ users'[t].status = users[t].status
                    /\ users'[t].first_access_at = users[t].first_access_at
      /\ \A t \in Tokens :
           (HasRow(users, t) /\ users[t].device_id # Null)
           => /\ HasRow(users', t)
              /\ users'[t].device_id = users[t].device_id
    ]_vars

\* C17: saveProgress and completeTest change the table only for a deviceId
\* equal to the stored device_id; for any other they answer 403
\* Unauthorized device and change nothing
C17_OnlyTheStoredDevice ==
  [][ (Handles("saveProgress") \/ Handles("completeTest")) =>
        LET t == request'.token
            deviceId == request'.body.deviceId
        IN /\ users' # users =>
                HasRow(users, t) /\ users[t].device_id = deviceId
           /\ (/\ Parsed(request'.body)
               /\ HasRow(users, t)
               /\ users[t].device_id # deviceId)
              => /\ response'.status = 403
                 /\ response'.body = [error |-> "Unauthorized device"]
                 /\ users' = users
    ]_vars

\* a save from devB on a token bound to devA was refused
C17_Witness ==
  /\ request # Null
  /\ request.op = "saveProgress"
  /\ Parsed(request.body)
  /\ HasRow(users, request.token)
  /\ users[request.token].device_id = Str("devA")
  /\ request.body.deviceId = Str("devB")
  /\ response.status = 403
  /\ users[request.token].answers = Null

StatusRank(st) ==
  CASE st = "pending" -> 1 [] st = "testing" -> 2 [] st = "completed" -> 3

\* C18 as claimed: a row starts pending, its status is one of pending,
\* testing and completed, and it never moves back
C18_StatusForward ==
  [][ \A t \in Tokens :
        /\ HasRow(users', t) =>
             users'[t].status \in {"pending", "testing", "completed"}
        /\ (~ HasRow(users, t) /\ HasRow(users', t)) =>
             users'[t].status = "pending"
        /\ HasRow(users, t) =>
             /\ HasRow(users', t)
             /\ StatusRank(users'[t].status) >= StatusRank(users[t].status)
    ]_vars

\* C19: a successful completeTest writes status, progress 90, result and
\* completed_at and nothing else; a successful saveProgress writes progress
\* and answers and nothing else
C19_FrameOfSaveAndComplete ==
  [][ /\ (Handles("completeTest") /\ response'.status = 200) =>
           LET t == request'.token
           IN /\ HasRow(users, t)
              /\ users' =
                   [users EXCEPT ![t] =
                      [@ EXCEPT !.status = "completed",
                                !.progress = Num(CompletedProgress),
                                !.result = JSONStringify(request'.body.result),
                                !.completed_at = users'[t].completed_at]]
      /\ (Handles("saveProgress") /\ response'.status = 200) =>
           LET t == request'.token
           IN /\ HasRow(users, t)
              /\ users' =
                   [users EXCEPT ![t] =
                      [@ EXCEPT !.progress = request'.body.progress,
                                !.answers =
                                  JSONStringify(request'.body.answers)]]
    ]_vars

\* a token bound to devA, saved and then completed from devA
C19_Witness ==
  /\ request # Null
  /\ request.op = "completeTest"
  /\ response.status = 200
  /\ users[request.token].status = "completed"
  /\ users[request.token].progress = Num(CompletedProgress)
  /\ users[request.token].result = Str("{\"totalScore\":7}")
  /\ users[request.token].answers = Str("[3,4]")
  /\ users[request.token].device_id = Str("devA")

\* C20 as claimed: a request for a token without a row is answered 404
\* Token not found and changes nothing
C20_UnknownToken ==
  [][ (/\ \/ Handles("getUserInfo") \/ Handles("recordAccess")
          \/ Handles("saveProgress") \/ Handles("completeTest")
       /\ ~ HasRow(users, request'.token))
        => /\ response'.status = 404
           /\ response'.body = [error |-> "Token not found"]
           /\ users' = users
    ]_vars

\* the request of the step carries no body (getUserInfo) or one that parses
BodyParses ==
  IF Handles("getUserInfo") THEN TRUE ELSE Parsed(request'.body)

\* C20, amended: a request for a token without a row changes nothing; it is
\* answered 404 Token not found when its body parses, and 500 when not
C20_UnknownTokenParsedBody ==
  [][ (/\ \/ Handles("getUserInfo") \/ Handles("recordAccess")
          \/ Handles("saveProgress") \/ Handles("completeTest")
       /\ ~ HasRow(users, request'.token))
        => /\ users' = users
           /\ BodyParses => response' = NotFound
           /\ ~ BodyParses => response'.status = 500
    ]_vars

\* a completeTest for a token without a row, beside a row that is bound
C20_Witness ==
  /\ request # Null
  /\ request.op = "completeTest"
  /\ Parsed(request.body)
  /\ ~ HasRow(users, request.token)
  /\ response.status = 404
  /\ \E t \in Tokens : HasRow(users, t) /\ users[t].device_id = Str("devA")

\* C21 as claimed: the progress stored for a token is always an integer in
\* 0..90
C21_ProgressInRange ==
  \A t \in Tokens :
    HasRow(users, t) =>
      /\ users[t].progress.kind = "number"
      /\ users[t].progress.value \in 0..CompletedProgress

\* C23 as claimed: while device_id is NULL no saveProgress or completeTest
\* changes the row, whatever deviceId it carries, so a row becomes completed
\* only after a device was bound
C23_UnboundIsUntouched ==
  [][ /\ (/\ Handles("saveProgress") \/ Handles("completeTest")
          /\ HasRow(users, request'.token)
          /\ users[request'.token].device_id = Null)
         => users' = users
      /\ \A t \in Tokens :
           (/\ HasRow(users, t)
            /\ users[t].status # "completed"
            /\ users'[t].status = "completed")
           => users[t].device_id # Null
    ]_vars

\* the calls that were answered 200
Winners ==
  { r \in DOMAIN inflight :
      /\ inflight[r].pc = "done"
      /\ inflight[r].response # Null
      /\ inflight[r].response.status = 200 }

AllAnswered == \A r \in DOMAIN inflight : inflight[r].pc = "done"

\* C22 as claimed: of the recordAccess calls racing for one unbound token
\* from different devices at most one is answered with success, and once
\* all are answered the device of that one is the device_id stored
C22_SingleWinner ==
  /\ Cardinality(Winners) <= 1
  /\ AllAnswered =>
       \A r \in Winners : users[RaceToken].device_id = RaceDevice(r)

=============================================================================
